---- MODULE Spec2Model ----
(***************************************************************************)
(* Model of the evidence job pipeline of python_api/main.py and of the     *)
(* frame loop of python_api/ai_analyzer.py.                                *)
(*                                                                         *)
(* State: the two module-level dictionaries of main.py (processing_status  *)
(* and completed_evidence, each with its insertion order), the files of    *)
(* the uploads directory, one background task per submitted evidence id    *)
(* and the response of the last request that was served.                   *)
(*                                                                         *)
(* Scheduling: every handler of main.py is a coroutine on one event loop.  *)
(* A handler runs from its start to its return without an await that       *)
(* touches the dictionaries, so it is one step; its reply is sent before   *)
(* the loop runs anything else.  The background task is scheduled by       *)
(* add_task and starts after upload_evidence has replied, so requests may  *)
(* be served before it starts.  Once started it is one step as well: what  *)
(* it awaits (process_video_evidence, analyze_frame, detect_objects,       *)
(* detect_faces) are coroutines of ai_analyzer.py that call cv2 and the    *)
(* models directly and never await anything that suspends, so control does *)
(* not go back to the event loop before the task is over.                  *)
(*                                                                         *)
(* Specification Spec is the service.  Specification PipelineSpec follows  *)
(* one call of process_video_evidence through its loop, piece by piece;    *)
(* the task of Spec runs the same pieces from first to last.               *)
(*                                                                         *)
(* The content of an uploaded file is known to the program only through    *)
(* what cv2 answers, so it is chosen when the task opens and reads it.     *)
(* evidence ids are opaque, so uuid4 is modelled as handing them out in    *)
(* order.  Wall-clock timestamps are not modelled.                         *)
(***************************************************************************)
EXTENDS Integers, Sequences, FiniteSets, TLC

(* ---------------------------- bounds ----------------------------------- *)

\* number of evidence ids uuid4 may hand out
MaxJobs == 2

\* largest number of decodable frames of an uploaded video
MaxFrames == 29

(* ------------------------- program constants --------------------------- *)

\* ai_analyzer.py line 398
sample_rate == 30

\* python's None (ProcessingStatus.error_message defaults to it)
None == "None"

\* the token accepted by verify_token
DemoToken == "demo-token"

Ids == 1..MaxJobs

\* an identifier uuid4 never returns, such as "invalid_evidence_id"
UnknownId == 0

RequestIds == Ids \cup {UnknownId}


Devices == {"camera_a", "camera_b"}

Filenames == {"clip.mp4"}

\* how a video source behaves once its decodable frames are used up:
\* "eof" is a clean end of stream, "broken" a decode error that cap.read()
\* reports as ret = False, "raises" a decode error cap.read() raises
Tails == {"eof", "broken", "raises"}

\* the lengths of video the environment may present
FrameChoices == {0, MaxFrames}

\* outcomes of saving the uploaded file (main.py lines 123-130)
SaveOutcomes == {"saved", "open_fails", "write_fails"}

VARIABLES
  processing_status,   \* main.py line 72: evidence_id -> ProcessingStatus
  status_keys,         \* insertion order of processing_status
  completed_evidence,  \* main.py line 73: evidence_id -> result record
  completed_keys,      \* insertion order of completed_evidence
  uploads,             \* the paths of the files of the uploads directory
  tasks,               \* background task of each generated evidence id
  response,            \* the response of the last request served
  pipeline             \* a call of process_video_evidence followed on its own

vars ==
  <<processing_status, status_keys, completed_evidence, completed_keys,
    uploads, tasks, response, pipeline>>

stores == <<processing_status, status_keys, completed_evidence, completed_keys>>

(* ------------------------- dictionary helpers -------------------------- *)

Range(s) == {s[i] : i \in DOMAIN s}

\* d[k] = v
Put(d, k, v) == [x \in (DOMAIN d) \cup {k} |-> IF x = k THEN v ELSE d[x]]

\* del d[k]
Del(d, k) == [x \in (DOMAIN d) \ {k} |-> d[x]]

\* insertion order after d[k] = v: a new key goes last, an old key stays
KeysPut(keys, k) == IF k \in Range(keys) THEN keys ELSE Append(keys, k)

\* insertion order after del d[k]
KeysDel(keys, k) == SelectSeq(keys, LAMBDA x : x # k)

EmptyDict == [x \in {} |-> None]

(* ------------------------------ records -------------------------------- *)

NoBody == [none |-> TRUE]

\* upload_dir / f"{evidence_id}_{file.filename}"
FilePath(evidence_id, filename) == <<evidence_id, filename>>

\* ProcessingStatus(evidence_id, status="pending", progress=0.0, ...);
\* progress is kept in tenths.  statuses is history, not a field of the
\* class: the values status has been given, oldest first.
PendingStatus(evidence_id) ==
  [evidence_id |-> evidence_id, status |-> "pending", progress |-> 0,
   error_message |-> None, statuses |-> <<"pending">>]

\* entry.status = status
set_status(entry, status) ==
  [entry EXCEPT !.status = status, !.statuses = Append(@, status)]

Terminal == {"completed", "failed"}

\* HTTPException(status_code, detail) and the 200 responses
Reply(op, code, detail, body) ==
  [op |-> op, code |-> code, detail |-> detail, body |-> body]

\* HTTPAuthorizationCredentials with the token of the Authorization header
Bearer(credentials) == [credentials |-> credentials, refused_with |-> 401]

\* lines 76-81
verify_token(token) == token.credentials = DemoToken

\* What is refused before verify_token runs: HTTPBearer (line 40) answers a
\* request without an Authorization header itself, with 403 in the older
\* releases of fastapi and with 401 in the newer ones.
NoCredentials(code) == [credentials |-> None, refused_with |-> code]

Missing == {NoCredentials(401), NoCredentials(403)}

\* the Authorization headers of the requests
Tokens == {Bearer(DemoToken), Bearer("invalid_token")} \cup Missing

\* the reply to a request whose token is not accepted
Unauthorized(op, token) ==
  IF token \in Missing
  THEN Reply(op, token.refused_with, "Not authenticated", NoBody)
  ELSE Reply(op, 401, "Invalid authentication credentials", NoBody)

\* no reply is waiting to be sent: the loop is free to run a coroutine
NoResponse == Reply("none", 0, "", NoBody)

Ready == response = NoResponse

(* ------------- ai_analyzer.py: frames and their analysis --------------- *)

\* datetime.now().isoformat(): the clock is not followed
Timestamp == "isoformat"

KeyErrorMessage == "KeyError"

CannotOpenMessage == "Cannot open video"

DecodeErrorMessage == "cv2.error"

\* detect_objects keeps a row when conf > 0.5; confidences are kept in
\* hundredths
conf_threshold == 50

\* VideoMetadata.quality_score: float = 0.0; scores are kept in thousandths
default_quality == 0

\* assess_quality returns 0.5 when a metric raises
medium_quality == 500

\* one row of results.xyxy[0]
Row(label, conf) == [label |-> label, confidence |-> conf]

\* estimate_noise returns 25.0 when the filter raises; noise levels are
\* kept in units
fallback_noise == 25

\* A decoded frame, by what the libraries answer for it: rows are the rows
\* YOLO gives, faces is the number of face_locations, detail the sum of
\* the sharpness, brightness and contrast scores of lines 234-236 (in
\* thousandths), noise the standard deviation estimate_noise computes.
EmptyRoom ==
  [rows |-> <<>>, faces |-> 0, detail |-> 0, noise |-> 0]

Crowd ==
  [rows |-> <<Row("person", 90), Row("car", 50), Row("person", 51),
              Row("dog", 40)>>,
   faces |-> 2, detail |-> 2200, noise |-> 10]

Street ==
  [rows |-> <<Row("car", 95), Row("person", 70)>>,
   faces |-> 1, detail |-> 2000, noise |-> 30]

\* AIAnalyzer as it came out of __init__ and as its models behave:
\* object_detector is "missing" when _load_object_detector returned None,
\* "raises" when calling the model fails; face_recognizer and the quality
\* metrics work or raise.  The filter of estimate_noise and the conversion
\* of detect_motion work unless said otherwise.
Analyzer(object_detector, face_recognizer, metrics) ==
  [object_detector |-> object_detector, face_recognizer |-> face_recognizer,
   metrics |-> metrics, noise_filter |-> "works", motion |-> "works"]

Working == Analyzer("loaded", "works", "works")

\* the analyzers with at most one part that fails
Analyzers ==
  {Working, Analyzer("missing", "works", "works"),
   Analyzer("raises", "works", "works"), Analyzer("loaded", "raises", "works"),
   Analyzer("loaded", "works", "raises"),
   [Working EXCEPT !.noise_filter = "raises"],
   [Working EXCEPT !.motion = "raises"]}

\* A video file, by what cv2 answers for it: opens says that a decoder
\* accepts it, frames is the number of frames cap.read() returns before
\* the stream is over, tail how it is over, total_frames what
\* CAP_PROP_FRAME_COUNT reports, scenes the pictures it shows.
Video(opens, frames, tail, total_frames, scenes) ==
  [opens |-> opens, frames |-> frames, tail |-> tail,
   total_frames |-> total_frames, scenes |-> scenes]

\* the content of a file no decoder can open
Unreadable == Video(FALSE, 0, "eof", 0, <<EmptyRoom>>)

\* the videos uploaded to the service
Videos ==
  {Unreadable} \cup
  {Video(TRUE, n, t, n, <<Street>>) : n \in FrameChoices, t \in Tails}

\* the analyzer as the tasks of the service meet it
TaskAnalyzers == {Working, Analyzer("raises", "works", "works")}

\* detect_objects with the test conf >= 0.5
detect_objects_inclusive(frame, analyzer) ==
  IF analyzer.object_detector = "missing" THEN <<>>
  ELSE IF analyzer.object_detector = "raises" THEN <<>>
  ELSE SelectSeq(frame.rows, LAMBDA row : row.confidence >= conf_threshold)

\* detect_objects (lines 130-159): the rows above the threshold, in order
detect_objects(frame, analyzer) ==
  IF analyzer.object_detector = "missing" THEN <<>>
  ELSE IF analyzer.object_detector = "raises" THEN <<>>
  ELSE SelectSeq(frame.rows, LAMBDA row : row.confidence > conf_threshold)

\* detect_faces (lines 161-192): the number of faces in the list returned
detect_faces(frame, analyzer) ==
  IF analyzer.face_recognizer = "raises" THEN 0
  ELSE frame.faces

\* the result of a call: a value, or an exception that leaves the callee
Returned(value) == [raised |-> FALSE, value |-> value]

Raised == [raised |-> TRUE, value |-> 0]

\* estimate_noise without its try: the exception of the filter leaves it
estimate_noise_unguarded(frame, analyzer) ==
  IF analyzer.noise_filter = "raises" THEN Raised
  ELSE Returned(frame.noise)

\* estimate_noise (lines 249-258)
estimate_noise(frame, analyzer) ==
  IF analyzer.noise_filter = "raises" THEN Returned(fallback_noise)
  ELSE Returned(frame.noise)

\* line 237, in thousandths: 1.0 - min(noise / 50.0, 1.0)
noise_score(noise) ==
  1000 - (IF noise * 20 < 1000 THEN noise * 20 ELSE 1000)

\* assess_quality (lines 215-247): the mean of the four scores, rounded to
\* thousandths; whatever is raised inside gives 0.5
assess_quality(frame, analyzer) ==
  LET noise == estimate_noise(frame, analyzer)
  IN  IF analyzer.metrics = "raises" \/ noise.raised THEN medium_quality
      ELSE (frame.detail + noise_score(noise.value) + 2) \div 4

\* metadata.environmental_conditions before assess_environment has set it
NoConditions == [none |-> TRUE]

\* assess_environment (lines 300-309) has no try of its own
assess_environment(frame, analyzer) ==
  LET noise == estimate_noise(frame, analyzer)
  IN  IF noise.raised THEN Raised
      ELSE Returned([environmental_noise |-> noise.value])

\* the VideoMetadata of lines 405-412 for the frame read as number sequence
VideoMetadata(sequence) ==
  [sequence |-> sequence, objects_detected |-> <<>>, faces_detected |-> 0,
   quality_score |-> default_quality,
   environmental_conditions |-> NoConditions]

\* analyze_frame with a detect_objects that lets the exception of the model
\* through: it reaches the except of line 126, which returns the metadata
\* as it came in
analyze_frame_unshielded(frame, metadata, analyzer) ==
  LET detected ==
        [metadata EXCEPT !.objects_detected = detect_objects(frame, analyzer),
                         !.faces_detected = detect_faces(frame, analyzer)]
      scored == [detected EXCEPT !.quality_score = assess_quality(frame, analyzer)]
      environment == assess_environment(frame, analyzer)
  IN  IF analyzer.object_detector = "raises" THEN metadata
      ELSE IF analyzer.motion = "raises" THEN detected
      ELSE IF environment.raised THEN scored
      ELSE [scored EXCEPT !.environmental_conditions = environment.value]

\* analyze_frame (lines 90-128): the detectors and assess_quality catch
\* their own exceptions; what detect_motion (line 103) or
\* assess_environment (line 120) raises goes to the except of line 126,
\* which returns the metadata as filled so far
analyze_frame(frame, metadata, analyzer) ==
  LET detected ==
        [metadata EXCEPT !.objects_detected = detect_objects(frame, analyzer),
                         !.faces_detected = detect_faces(frame, analyzer)]
      scored == [detected EXCEPT !.quality_score = assess_quality(frame, analyzer)]
      environment == assess_environment(frame, analyzer)
  IN  IF analyzer.motion = "raises" THEN detected
      ELSE IF environment.raised THEN scored
      ELSE [scored EXCEPT !.environmental_conditions = environment.value]

(* ------------- ai_analyzer.py: process_video_evidence ------------------ *)

\* cv2.VideoCapture(video_path) followed by cap.isOpened(): the capture is
\* open when the file is there and a decoder accepts its content
isOpened(files, video_path, video) == video_path \in files /\ video.opens

\* the frame cap.read() returns as number i: the picture changes every 30
\* frames through the scenes of the video
frame_at(video, i) == video.scenes[((i \div 30) % Len(video.scenes)) + 1]

\* count_labels that counts a label once for a frame, however many objects
\* of the frame carry it
count_labels_once(all_objects, objects) ==
  LET labels == {objects[k].label : k \in DOMAIN objects}
  IN  [label \in DOMAIN all_objects \cup labels |->
         (IF label \in DOMAIN all_objects THEN all_objects[label] ELSE 0)
           + (IF label \in labels THEN 1 ELSE 0)]

\* all_objects after the loop of lines 419-421 over objects
RECURSIVE count_labels(_, _)
count_labels(all_objects, objects) ==
  IF objects = <<>> THEN all_objects
  ELSE LET label == Head(objects).label
           seen == IF label \in DOMAIN all_objects THEN all_objects[label] ELSE 0
       IN  count_labels(Put(all_objects, label, seen + 1), Tail(objects))

\* dict.get("total_faces", 0)
total_faces(faces) ==
  IF "total_faces" \in DOMAIN faces THEN faces["total_faces"] ELSE 0

\* all_faces after lines 423-426 for a frame with n faces
count_faces(all_faces, n) ==
  IF n > 0 THEN Put(all_faces, "total_faces", total_faces(all_faces) + n)
  ELSE all_faces

RECURSIVE Sum(_)
Sum(s) == IF s = <<>> THEN 0 ELSE Head(s) + Sum(Tail(s))

Min(s) == CHOOSE x \in Range(s) : \A y \in Range(s) : x <= y

Max(s) == CHOOSE x \in Range(s) : \A y \in Range(s) : x >= y

\* np.mean(s) as the fraction sum / count
Mean(s) == [sum |-> Sum(s), count |-> Len(s)]

\* lines 438-442
quality_stats(quality_scores) ==
  [mean_quality |-> IF quality_scores # <<>> THEN Mean(quality_scores) ELSE 0,
   min_quality |-> IF quality_scores # <<>> THEN Min(quality_scores) ELSE 0,
   max_quality |-> IF quality_scores # <<>> THEN Max(quality_scores) ELSE 0]

\* The coroutine at line 368, about to open the capture.  analyzed is
\* history: the sequence numbers analyze_frame was called with.
start_run(video, analyzer, files, video_path, device_id) ==
  [pc |-> "open", video |-> video, analyzer |-> analyzer,
   openable |-> isOpened(files, video_path, video),
   frame_count |-> 0,
   evidence_metadata |->
     [device_id |-> device_id, video_path |-> video_path, total_frames |-> 0,
      frames_processed |-> 0, objects_summary |-> EmptyDict,
      faces_summary |-> EmptyDict, quality_stats |-> EmptyDict,
      processing_timestamp |-> Timestamp],
   all_objects |-> EmptyDict, all_faces |-> EmptyDict, quality_scores |-> <<>>,
   analyzed |-> <<>>, released |-> FALSE, message |-> None]

\* lines 368-398: the capture is opened and the summary is laid out
open_capture(run) ==
  IF ~run.openable
  THEN [run EXCEPT !.pc = "raised", !.message = CannotOpenMessage]
  ELSE [run EXCEPT !.pc = "read",
                   !.evidence_metadata.total_frames = run.video.total_frames]

\* read_frame that samples the last frame of every stride of 30 instead of
\* the first
read_frame_late(run) ==
  IF run.frame_count >= run.video.frames
  THEN IF run.video.tail = "raises"
       THEN [run EXCEPT !.pc = "raised", !.message = DecodeErrorMessage]
       ELSE [run EXCEPT !.pc = "summary"]
  ELSE IF (run.frame_count + 1) % sample_rate = 0
       THEN [run EXCEPT !.pc = "sample"]
       ELSE [run EXCEPT !.frame_count = @ + 1]

\* lines 400-404 and 431: cap.read(); the loop breaks, or the frame is one
\* to analyse, or it is passed over
read_frame(run) ==
  IF run.frame_count >= run.video.frames
  THEN IF run.video.tail = "raises"
       THEN [run EXCEPT !.pc = "raised", !.message = DecodeErrorMessage]
       ELSE [run EXCEPT !.pc = "summary"]
  ELSE IF run.frame_count % sample_rate = 0
       THEN [run EXCEPT !.pc = "sample"]
       ELSE [run EXCEPT !.frame_count = @ + 1]

\* aggregate that takes the quality score only of a record analyze_frame
\* filled to the end
aggregate_complete_only(run, enhanced_metadata) ==
  [run EXCEPT
     !.pc = "read",
     !.analyzed = Append(@, enhanced_metadata.sequence),
     !.all_objects = count_labels(@, enhanced_metadata.objects_detected),
     !.all_faces = count_faces(@, enhanced_metadata.faces_detected),
     !.quality_scores =
        IF enhanced_metadata.environmental_conditions = NoConditions THEN @
        ELSE Append(@, enhanced_metadata.quality_score),
     !.evidence_metadata.frames_processed = @ + 1,
     !.frame_count = @ + 1]

\* lines 418-431: the record of a sampled frame is added to the running
\* results, and the frame is counted
aggregate(run, enhanced_metadata) ==
  [run EXCEPT
     !.pc = "read",
     !.analyzed = Append(@, enhanced_metadata.sequence),
     !.all_objects = count_labels(@, enhanced_metadata.objects_detected),
     !.all_faces = count_faces(@, enhanced_metadata.faces_detected),
     !.quality_scores = Append(@, enhanced_metadata.quality_score),
     !.evidence_metadata.frames_processed = @ + 1,
     !.frame_count = @ + 1]

\* sample_frame that numbers the frame by its place among the sampled
\* frames: sequence = frames_processed
sample_frame_ordinal(run) ==
  aggregate(run,
            analyze_frame(frame_at(run.video, run.frame_count),
                          VideoMetadata(run.evidence_metadata.frames_processed),
                          run.analyzer))

\* lines 405-431 for a sampled frame
sample_frame(run) ==
  aggregate(run,
            analyze_frame(frame_at(run.video, run.frame_count),
                          VideoMetadata(run.frame_count), run.analyzer))

\* compile_summary without the guards of lines 439-441: np.min of an empty
\* list raises ValueError
compile_summary_unguarded(run) ==
  IF run.quality_scores = <<>>
  THEN [run EXCEPT !.pc = "raised", !.released = TRUE, !.message = "ValueError"]
  ELSE [run EXCEPT
          !.pc = "returned",
          !.released = TRUE,
          !.evidence_metadata.objects_summary = run.all_objects,
          !.evidence_metadata.faces_summary = run.all_faces,
          !.evidence_metadata.quality_stats =
             [mean_quality |-> Mean(run.quality_scores),
              min_quality |-> Min(run.quality_scores),
              max_quality |-> Max(run.quality_scores)]]

\* lines 433-445
compile_summary(run) ==
  [run EXCEPT
     !.pc = "returned",
     !.released = TRUE,
     !.evidence_metadata.objects_summary = run.all_objects,
     !.evidence_metadata.faces_summary = run.all_faces,
     !.evidence_metadata.quality_stats = quality_stats(run.quality_scores)]

Ended == {"returned", "raised"}

\* the next piece of the coroutine
run_step(run) ==
  CASE run.pc = "open" -> open_capture(run)
    [] run.pc = "read" -> read_frame(run)
    [] run.pc = "sample" -> sample_frame(run)
    [] run.pc = "summary" -> compile_summary(run)

\* The coroutine from run to its end.  analyze_frame and the detectors it
\* awaits contain no await that suspends, so the coroutine is not
\* interrupted on its way.
RECURSIVE finish(_)
finish(run) == IF run.pc \in Ended THEN run ELSE finish(run_step(run))

\* await processor.process_video_evidence(video_path, device_id)
process_video_evidence(video, analyzer, files, video_path, device_id) ==
  finish(start_run(video, analyzer, files, video_path, device_id))

\* what became of the stream of a run that is over
StreamState(run) ==
  IF ~run.openable THEN "unopenable"
  ELSE IF run.video.tail = "eof" THEN "ended"
  ELSE IF run.frame_count >= 1 THEN "interrupted"
  ELSE "undecodable"

(* --------------- main.py: process_evidence_background ------------------ *)

\* a task that is over: its arguments and locals are gone; stream records
\* how its video source ended
EndedTask(pc, stream) == [pc |-> pc, stream |-> stream]

Running == {"scheduled"}

\* mark_failed that also sets the progress of the failed job to 1.0
mark_failed_full(ps, evidence_id, message) ==
  IF evidence_id \in DOMAIN ps
  THEN [raised |-> FALSE,
        ps |-> [ps EXCEPT ![evidence_id] =
                  [set_status(@, "failed") EXCEPT !.error_message = message,
                                                  !.progress = 10]]]
  ELSE [raised |-> TRUE, ps |-> ps]

\* processing_status[evidence_id].status = "failed" and the assignment of
\* error_message after it; the subscript raises KeyError for a missing id
mark_failed(ps, evidence_id, message) ==
  IF evidence_id \in DOMAIN ps
  THEN [raised |-> FALSE,
        ps |-> [ps EXCEPT ![evidence_id] =
                  [set_status(@, "failed") EXCEPT !.error_message = message]]]
  ELSE [raised |-> TRUE, ps |-> ps]

\* outer_handler that writes the failure with processing_status[id] =
\* ProcessingStatus(...): a missing entry is created
outer_handler_recreates(ps, evidence_id, message) ==
  IF evidence_id \in DOMAIN ps
  THEN [ps |-> mark_failed(ps, evidence_id, message).ps, pc |-> "done"]
  ELSE [ps |-> Put(ps, evidence_id,
                   [set_status(PendingStatus(evidence_id), "failed")
                      EXCEPT !.error_message = message]),
        pc |-> "done"]

\* An exception with text message reaches the outer handler (lines
\* 203-206); what the handler itself raises leaves the task.
outer_handler(ps, evidence_id, message) ==
  LET outer == mark_failed(ps, evidence_id, message)
  IN  IF ~outer.raised THEN [ps |-> outer.ps, pc |-> "done"]
      ELSE [ps |-> ps, pc |-> "crashed"]

\* An exception with text message reaches the inner handler (lines
\* 198-201).  What that handler raises reaches the outer one (lines
\* 203-206), and what the outer one raises leaves the task.
fail_job(ps, evidence_id, message) ==
  LET inner == mark_failed(ps, evidence_id, message)
  IN  IF ~inner.raised THEN [ps |-> inner.ps, pc |-> "done"]
      ELSE outer_handler(ps, evidence_id, KeyErrorMessage)

\* the record stored by lines 186-194
evidence_record(evidence_id, task, results) ==
  [evidence_id |-> evidence_id, device_id |-> task.device_id,
   evidence_type |-> task.evidence_type, location |-> task.location,
   processing_results |-> results, processing_completed_at |-> Timestamp,
   file_path |-> task.file_path]

\* complete_job that writes under the id of the latest upload instead of
\* the task's own evidence_id
complete_job_latest(ps, ce, ck, evidence_id, task, results) ==
  LET latest == IF status_keys = <<>> THEN evidence_id
                ELSE status_keys[Len(status_keys)]
  IN  IF latest \in DOMAIN ps
      THEN [raised |-> FALSE,
            ps |-> [ps EXCEPT ![latest] =
                      [set_status(@, "completed") EXCEPT !.progress = 10]],
            ce |-> Put(ce, latest, evidence_record(latest, task, results)),
            ck |-> KeysPut(ck, latest)]
      ELSE [raised |-> TRUE, ps |-> ps, ce |-> ce, ck |-> ck]

\* lines 181-194 on a status store ps: the first subscript raises KeyError
\* for a missing id before anything is written
complete_job(ps, ce, ck, evidence_id, task, results) ==
  IF evidence_id \in DOMAIN ps
  THEN [raised |-> FALSE,
        ps |-> [ps EXCEPT ![evidence_id] =
                  [set_status(@, "completed") EXCEPT !.progress = 10]],
        ce |-> Put(ce, evidence_id, evidence_record(evidence_id, task, results)),
        ck |-> KeysPut(ck, evidence_id)]
  ELSE [raised |-> TRUE, ps |-> ps, ce |-> ce, ck |-> ck]

\* the task ends with an exception raised by process_video_evidence
TaskFails(evidence_id, ps, message, stream) ==
  LET out == fail_job(ps, evidence_id, message)
  IN  /\ processing_status' = out.ps
      /\ tasks' = [tasks EXCEPT ![evidence_id] = EndedTask(out.pc, stream)]
      /\ UNCHANGED <<status_keys, completed_evidence, completed_keys>>

\* process_video_evidence returned the summary results
TaskCompletes(evidence_id, ps, results, stream) ==
  LET out == complete_job(ps, completed_evidence, completed_keys, evidence_id,
                          tasks[evidence_id], results)
  IN  IF ~out.raised
      THEN /\ processing_status' = out.ps
           /\ completed_evidence' = out.ce
           /\ completed_keys' = out.ck
           /\ tasks' = [tasks EXCEPT ![evidence_id] = EndedTask("done", stream)]
           /\ UNCHANGED status_keys
      ELSE TaskFails(evidence_id, ps, KeyErrorMessage, stream)

\* process_evidence_background without line 172: the task sets the
\* progress and goes on to the analysis with the job still pending
process_evidence_background_stays_pending(evidence_id, video, analyzer) ==
  /\ Ready
  /\ evidence_id \in DOMAIN tasks
  /\ tasks[evidence_id].pc = "scheduled"
  /\ IF evidence_id \notin DOMAIN processing_status
     THEN LET out == outer_handler(processing_status, evidence_id, KeyErrorMessage)
          IN  /\ processing_status' = out.ps
              /\ tasks' = [tasks EXCEPT ![evidence_id] = EndedTask(out.pc, "unopened")]
              /\ UNCHANGED <<status_keys, completed_evidence, completed_keys>>
     ELSE LET task == tasks[evidence_id]
              ps == [processing_status EXCEPT ![evidence_id].progress = 1]
              run == process_video_evidence(video, analyzer, uploads,
                                            task.file_path, task.device_id)
          IN  IF run.pc = "returned"
              THEN TaskCompletes(evidence_id, ps, run.evidence_metadata,
                                 StreamState(run))
              ELSE TaskFails(evidence_id, ps, run.message, StreamState(run))
  /\ UNCHANGED <<uploads, response>>

\* The background task of evidence_id, on a file whose content is video
\* and with the analyzer behaving as analyzer: lines 170-206.  Nothing the
\* task awaits suspends it, so it runs from its start to its end in one
\* piece.  A missing status entry raises KeyError at line 172, which goes
\* to the outer handler.
process_evidence_background(evidence_id, video, analyzer) ==
  /\ Ready
  /\ evidence_id \in DOMAIN tasks
  /\ tasks[evidence_id].pc = "scheduled"
  /\ IF evidence_id \notin DOMAIN processing_status
     THEN LET out == outer_handler(processing_status, evidence_id, KeyErrorMessage)
          IN  /\ processing_status' = out.ps
              /\ tasks' = [tasks EXCEPT ![evidence_id] = EndedTask(out.pc, "unopened")]
              /\ UNCHANGED <<status_keys, completed_evidence, completed_keys>>
     ELSE LET task == tasks[evidence_id]
              ps == [processing_status EXCEPT ![evidence_id] =
                       [set_status(@, "processing") EXCEPT !.progress = 1]]
              run == process_video_evidence(video, analyzer, uploads,
                                            task.file_path, task.device_id)
          IN  IF run.pc = "returned"
              THEN TaskCompletes(evidence_id, ps, run.evidence_metadata,
                                 StreamState(run))
              ELSE TaskFails(evidence_id, ps, run.message, StreamState(run))
  /\ UNCHANGED <<uploads, response>>

(* ----------------------- main.py: the endpoints ------------------------ *)

\* ids uuid4 has returned so far: those with a task or a file named after them
Generated == (DOMAIN tasks) \cup {path[1] : path \in uploads}

\* str(uuid.uuid4()): an id that was not returned before
uuid4(generated) ==
  CHOOSE evidence_id \in Ids \ generated :
    \A other \in Ids \ generated : evidence_id <= other

\* upload_evidence with lines 132-138 moved before line 128: the status
\* entry is created before the file is saved
upload_evidence_status_first(token, filename, device_id, evidence_type, save) ==
  /\ Ready
  /\ IF ~verify_token(token)
     THEN /\ response' = Unauthorized("upload", token)
          /\ UNCHANGED <<stores, uploads, tasks>>
     ELSE /\ Ids \ Generated # {}
          /\ LET evidence_id == uuid4(Generated)
                 file_path == FilePath(evidence_id, filename)
             IN  /\ processing_status' =
                      Put(processing_status, evidence_id, PendingStatus(evidence_id))
                 /\ status_keys' = KeysPut(status_keys, evidence_id)
                 /\ UNCHANGED <<completed_evidence, completed_keys>>
                 /\ uploads' = IF save = "open_fails" THEN uploads
                               ELSE uploads \cup {file_path}
                 /\ tasks' = IF save = "saved"
                             THEN Put(tasks, evidence_id,
                                      [pc |-> "scheduled", file_path |-> file_path,
                                       device_id |-> device_id,
                                       evidence_type |-> evidence_type,
                                       location |-> None])
                             ELSE tasks
                 /\ response' =
                      IF save = "saved"
                      THEN Reply("upload", 200, "uploaded",
                                 [evidence_id |-> evidence_id])
                      ELSE Reply("upload", 500, "Upload failed", NoBody)

\* POST /api/v1/evidence/upload.  The file is saved, then the status entry
\* is created and the task scheduled (lines 132-148); an exception while
\* saving is turned into a 500 (lines 158-160).
upload_evidence(token, filename, device_id, evidence_type, save) ==
  /\ Ready
  /\ IF ~verify_token(token)
     THEN /\ response' = Unauthorized("upload", token)
          /\ UNCHANGED <<stores, uploads, tasks>>
     ELSE /\ Ids \ Generated # {}
          /\ LET evidence_id == uuid4(Generated)
                 file_path == FilePath(evidence_id, filename)
             IN  CASE save = "open_fails" ->
                        /\ response' =
                             Reply("upload", 500, "Upload failed", NoBody)
                        /\ UNCHANGED <<stores, uploads, tasks>>
                   [] save = "write_fails" ->
                        /\ uploads' = uploads \cup {file_path}
                        /\ response' =
                             Reply("upload", 500, "Upload failed", NoBody)
                        /\ UNCHANGED <<stores, tasks>>
                   [] save = "saved" ->
                        /\ uploads' = uploads \cup {file_path}
                        /\ processing_status' =
                             Put(processing_status, evidence_id,
                                 PendingStatus(evidence_id))
                        /\ status_keys' = KeysPut(status_keys, evidence_id)
                        /\ tasks' = Put(tasks, evidence_id,
                                        [pc |-> "scheduled", file_path |-> file_path,
                                         device_id |-> device_id,
                                         evidence_type |-> evidence_type,
                                         location |-> None])
                        /\ response' =
                             Reply("upload", 200, "uploaded",
                                   [evidence_id |-> evidence_id])
                        /\ UNCHANGED <<completed_evidence, completed_keys>>

\* the body of GET /api/v1/evidence/{evidence_id}/progress
\* progress_reply written with processing_status.get(evidence_id, default):
\* an id the store does not have is answered as a pending job
progress_reply_default(ps, evidence_id) ==
  IF evidence_id \notin DOMAIN ps
  THEN Reply("progress", 200, "",
             [evidence_id |-> evidence_id, status |-> "pending",
              progress |-> 0, error_message |-> None])
  ELSE Reply("progress", 200, "",
             [evidence_id |-> evidence_id, status |-> ps[evidence_id].status,
              progress |-> ps[evidence_id].progress,
              error_message |-> ps[evidence_id].error_message])

progress_reply(ps, evidence_id) ==
  IF evidence_id \notin DOMAIN ps
  THEN Reply("progress", 404, "Evidence not found", NoBody)
  ELSE Reply("progress", 200, "",
             [evidence_id |-> evidence_id, status |-> ps[evidence_id].status,
              progress |-> ps[evidence_id].progress,
              error_message |-> ps[evidence_id].error_message])

get_processing_progress(token, evidence_id) ==
  /\ Ready
  /\ response' = IF verify_token(token)
                 THEN progress_reply(processing_status, evidence_id)
                 ELSE Unauthorized("progress", token)
  /\ UNCHANGED <<stores, uploads, tasks>>

\* results_reply without lines 237-238: a failed job is answered like one
\* that is not there
results_reply_hides_failure(ps, ce, evidence_id) ==
  IF evidence_id \notin DOMAIN ce
  THEN IF evidence_id \in DOMAIN ps /\ ps[evidence_id].status = "processing"
       THEN Reply("results", 200, "AI analysis is still in progress",
                  [evidence_id |-> evidence_id, status |-> "processing",
                   progress |-> ps[evidence_id].progress])
       ELSE Reply("results", 404,
                  "Evidence not found or processing not completed", NoBody)
  ELSE Reply("results", 200, "", ce[evidence_id])

\* the body of GET /api/v1/evidence/{evidence_id}/results
results_reply(ps, ce, evidence_id) ==
  IF evidence_id \notin DOMAIN ce
  THEN IF evidence_id \in DOMAIN ps /\ ps[evidence_id].status = "processing"
       THEN Reply("results", 200, "AI analysis is still in progress",
                  [evidence_id |-> evidence_id, status |-> "processing",
                   progress |-> ps[evidence_id].progress])
       ELSE IF evidence_id \in DOMAIN ps /\ ps[evidence_id].status = "failed"
       THEN Reply("results", 500, "Processing failed",
                  [error_message |-> ps[evidence_id].error_message])
       ELSE Reply("results", 404,
                  "Evidence not found or processing not completed", NoBody)
  ELSE Reply("results", 200, "", ce[evidence_id])

\* get_evidence_results written with completed_evidence.pop(evidence_id):
\* the read takes the result out of the store
get_evidence_results_pop(token, evidence_id) ==
  /\ Ready
  /\ response' = IF verify_token(token)
                 THEN results_reply(processing_status, completed_evidence, evidence_id)
                 ELSE Unauthorized("results", token)
  /\ completed_evidence' =
       IF verify_token(token) /\ evidence_id \in DOMAIN completed_evidence
       THEN Del(completed_evidence, evidence_id) ELSE completed_evidence
  /\ completed_keys' =
       IF verify_token(token) /\ evidence_id \in DOMAIN completed_evidence
       THEN KeysDel(completed_keys, evidence_id) ELSE completed_keys
  /\ UNCHANGED <<processing_status, status_keys, uploads, tasks>>

get_evidence_results(token, evidence_id) ==
  /\ Ready
  /\ response' = IF verify_token(token)
                 THEN results_reply(processing_status, completed_evidence, evidence_id)
                 ELSE Unauthorized("results", token)
  /\ UNCHANGED <<stores, uploads, tasks>>

\* bodies of verify requests: the one test_evidence_verification posts has
\* no evidence_id
VerifyBodies ==
  {[has_id |-> FALSE, verification_level |-> "forensic", include_ai_analysis |-> TRUE],
   [has_id |-> TRUE, verification_level |-> "forensic", include_ai_analysis |-> TRUE],
   [has_id |-> TRUE, verification_level |-> "standard", include_ai_analysis |-> FALSE]}

\* POST /api/v1/evidence/{evidence_id}/verify with a body the
\* VerificationRequest model accepts
verify_reply(ce, evidence_id, verification_level, include_ai_analysis) ==
  IF evidence_id \notin DOMAIN ce
  THEN Reply("verify", 404, "Evidence not found", NoBody)
  ELSE Reply("verify", 200, "",
             [evidence_id |-> evidence_id,
              verification_level |-> verification_level,
              integrity_check |-> "passed",
              ai_analysis |-> include_ai_analysis,
              bitcoin_anchored |-> TRUE])

\* The model VerificationRequest (lines 53-56) has a required field
\* evidence_id: a body without it is answered 422 before the handler runs.
verify_response(ce, token, evidence_id, request) ==
  IF ~verify_token(token) THEN Unauthorized("verify", token)
  ELSE IF ~request.has_id
  THEN Reply("verify", 422, "field required", NoBody)
  ELSE verify_reply(ce, evidence_id, request.verification_level,
                    request.include_ai_analysis)

\* verify_evidence that records the verification in the job's status entry
verify_evidence_marks(token, evidence_id, request) ==
  /\ Ready
  /\ response' = verify_response(completed_evidence, token, evidence_id, request)
  /\ processing_status' =
       IF /\ verify_token(token)
          /\ request.has_id
          /\ evidence_id \in DOMAIN completed_evidence
          /\ evidence_id \in DOMAIN processing_status
       THEN [processing_status EXCEPT ![evidence_id].status = "verified"]
       ELSE processing_status
  /\ UNCHANGED <<status_keys, completed_evidence, completed_keys, uploads, tasks>>

verify_evidence(token, evidence_id, request) ==
  /\ Ready
  /\ response' = verify_response(completed_evidence, token, evidence_id, request)
  /\ UNCHANGED <<stores, uploads, tasks>>

\* bodies of court-report requests: the one test_court_report_generation
\* posts has no evidence_id
ReportBodies ==
  {[has_id |-> FALSE, report_type |-> "full", jurisdiction |-> "US"],
   [has_id |-> TRUE, report_type |-> "full", jurisdiction |-> "US"]}

\* POST /api/v1/evidence/{evidence_id}/court-report with a body the
\* CourtReportRequest model accepts
court_report_reply(ce, evidence_id, report_type, jurisdiction) ==
  IF evidence_id \notin DOMAIN ce
  THEN Reply("court-report", 404, "Evidence not found", NoBody)
  ELSE Reply("court-report", 200, "",
             [evidence_id |-> evidence_id, report_type |-> report_type,
              jurisdiction |-> jurisdiction,
              device_id |-> ce[evidence_id].device_id,
              frames_analyzed |-> ce[evidence_id].processing_results.frames_processed])

\* CourtReportRequest (lines 58-61) requires evidence_id in the body too
court_report_response(ce, token, evidence_id, request) ==
  IF ~verify_token(token) THEN Unauthorized("court-report", token)
  ELSE IF ~request.has_id
  THEN Reply("court-report", 422, "field required", NoBody)
  ELSE court_report_reply(ce, evidence_id, request.report_type,
                          request.jurisdiction)

generate_court_report(token, evidence_id, request) ==
  /\ Ready
  /\ response' =
       court_report_response(completed_evidence, token, evidence_id, request)
  /\ UNCHANGED <<stores, uploads, tasks>>

\* [f(x) for x in s]
RECURSIVE MapSeq(_, _)
MapSeq(f(_), s) ==
  IF s = <<>> THEN <<>> ELSE <<f(Head(s))>> \o MapSeq(f, Tail(s))

\* python's s[skip:skip + limit] for skip >= 0 and limit >= 0
Slice(s, skip, limit) ==
  LET lo == IF skip < Len(s) THEN skip ELSE Len(s)
      hi == IF skip + limit < Len(s) THEN skip + limit ELSE Len(s)
  IN  SubSeq(s, lo + 1, hi)

\* lines 417-437: the completed evidence, then the entries of the status
\* store that are neither completed nor in the result store
all_evidence(ps, sk, ce, ck) ==
  LET done(evidence_id) == [evidence_id |-> evidence_id, status |-> "completed"]
      open(evidence_id) == [evidence_id |-> evidence_id,
                            status |-> ps[evidence_id].status]
      listed(evidence_id) ==
        ps[evidence_id].status # "completed" /\ evidence_id \notin DOMAIN ce
  IN  MapSeq(done, ck) \o MapSeq(open, SelectSeq(sk, listed))

\* query parameters of list requests; the first are the defaults
ListQueries ==
  {[skip |-> 0, limit |-> 50, status_filter |-> None],
   [skip |-> 1, limit |-> 1, status_filter |-> None],
   [skip |-> 0, limit |-> 50, status_filter |-> "failed"]}

\* GET /api/v1/evidence/list
list_reply(ps, sk, ce, ck, skip, limit, status_filter) ==
  LET matches(e) == e.status = status_filter
      every == all_evidence(ps, sk, ce, ck)
      kept == IF status_filter # None THEN SelectSeq(every, matches) ELSE every
  IN  Reply("list", 200, "",
            [total |-> Len(kept), skip |-> skip, limit |-> limit,
             evidence |-> Slice(kept, skip, limit)])

list_evidence(token, skip, limit, status_filter) ==
  /\ Ready
  /\ response' =
       IF verify_token(token)
       THEN list_reply(processing_status, status_keys, completed_evidence,
                       completed_keys, skip, limit, status_filter)
       ELSE Unauthorized("list", token)
  /\ UNCHANGED <<stores, uploads, tasks>>

\* DELETE /api/v1/evidence/{evidence_id}.  remove_ok is whether os.remove
\* succeeds; when it raises, the handler answers 500 (lines 477-479) with
\* the result already deleted and the status entry still there.
delete_evidence(token, evidence_id, remove_ok) ==
  /\ Ready
  /\ IF ~verify_token(token)
     THEN /\ response' = Unauthorized("delete", token)
          /\ UNCHANGED <<stores, uploads, tasks>>
     ELSE LET stored == evidence_id \in DOMAIN completed_evidence
              file_path == completed_evidence[evidence_id].file_path
              removing == stored /\ file_path \in uploads
              raised == removing /\ ~remove_ok
              dropped == ~raised /\ evidence_id \in DOMAIN processing_status
          IN  /\ completed_evidence' =
                   IF stored THEN Del(completed_evidence, evidence_id)
                   ELSE completed_evidence
              /\ completed_keys' =
                   IF stored THEN KeysDel(completed_keys, evidence_id)
                   ELSE completed_keys
              /\ uploads' = IF removing /\ remove_ok THEN uploads \ {file_path}
                            ELSE uploads
              /\ processing_status' =
                   IF dropped THEN Del(processing_status, evidence_id)
                   ELSE processing_status
              /\ status_keys' =
                   IF dropped THEN KeysDel(status_keys, evidence_id)
                   ELSE status_keys
              /\ response' =
                   IF raised
                   THEN Reply("delete", 500, "Deletion failed", NoBody)
                   ELSE Reply("delete", 200, "deleted successfully",
                              [evidence_id |-> evidence_id])
              /\ UNCHANGED tasks

\* GET /health takes no credentials
health_check ==
  /\ Ready
  /\ response' = Reply("health", 200, "healthy", NoBody)
  /\ UNCHANGED <<stores, uploads, tasks>>

\* the server sends the reply of the handler that has returned
send_response ==
  /\ ~Ready
  /\ response' = NoResponse
  /\ UNCHANGED <<stores, uploads, tasks>>

(* --------------------------- specification ----------------------------- *)

EvidenceTypes == {"video"}

\* no call of process_video_evidence is followed on its own
NoRun == [pc |-> "idle"]

Init ==
  /\ processing_status = EmptyDict
  /\ status_keys = <<>>
  /\ completed_evidence = EmptyDict
  /\ completed_keys = <<>>
  /\ uploads = {}
  /\ tasks = EmptyDict
  /\ response = NoResponse
  /\ pipeline = NoRun

Upload ==
  /\ \E token \in Tokens, filename \in Filenames, device_id \in Devices,
        evidence_type \in EvidenceTypes, save \in SaveOutcomes :
       upload_evidence(token, filename, device_id, evidence_type, save)
  /\ UNCHANGED pipeline

Progress ==
  /\ \E token \in Tokens, evidence_id \in RequestIds :
       get_processing_progress(token, evidence_id)
  /\ UNCHANGED pipeline

Results ==
  /\ \E token \in Tokens, evidence_id \in RequestIds :
       get_evidence_results(token, evidence_id)
  /\ UNCHANGED pipeline

Verify ==
  /\ \E token \in Tokens, evidence_id \in RequestIds, request \in VerifyBodies :
       verify_evidence(token, evidence_id, request)
  /\ UNCHANGED pipeline

CourtReport ==
  /\ \E token \in Tokens, evidence_id \in RequestIds, request \in ReportBodies :
       generate_court_report(token, evidence_id, request)
  /\ UNCHANGED pipeline

List ==
  /\ \E token \in Tokens, query \in ListQueries :
       list_evidence(token, query.skip, query.limit, query.status_filter)
  /\ UNCHANGED pipeline

Delete ==
  /\ \E token \in Tokens, evidence_id \in RequestIds, remove_ok \in BOOLEAN :
       delete_evidence(token, evidence_id, remove_ok)
  /\ UNCHANGED pipeline

Health == health_check /\ UNCHANGED pipeline

Send == send_response /\ UNCHANGED pipeline

\* the event loop runs the background task of one of the jobs
Background ==
  /\ \E evidence_id \in Ids, video \in Videos, analyzer \in TaskAnalyzers :
       process_evidence_background(evidence_id, video, analyzer)
  /\ UNCHANGED pipeline

Next ==
  \/ Upload
  \/ Progress
  \/ Results
  \/ Verify
  \/ CourtReport
  \/ List
  \/ Delete
  \/ Health
  \/ Send
  \/ Background

Spec == Init /\ [][Next]_vars

(* ------------- process_video_evidence followed on its own -------------- *)

\* largest number of decodable frames of a video given to the call
MaxSourceFrames == 301

\* numbers of decodable frames: around the sampling stride and its
\* multiples, and the 301 frames of the sampling example
SourceLengths == {0, 1, 29, 30, 31, 60, 61, 301, MaxSourceFrames}

\* the pictures of the videos given to the call
SourceScenes == {<<EmptyRoom>>, <<Crowd, EmptyRoom, Street>>, <<Street, Crowd>>}

\* The videos given to the call: CAP_PROP_FRAME_COUNT is taken from the
\* container and is either right or 0 (a container that does not say).
SourceVideos ==
  {Unreadable} \cup
  {Video(TRUE, n, t, IF counted THEN n ELSE 0, scenes) :
     n \in SourceLengths, t \in Tails, counted \in BOOLEAN,
     scenes \in SourceScenes}

SourcePath == FilePath(1, "clip.mp4")

PipelineInit ==
  /\ processing_status = EmptyDict
  /\ status_keys = <<>>
  /\ completed_evidence = EmptyDict
  /\ completed_keys = <<>>
  /\ uploads = {SourcePath}
  /\ tasks = EmptyDict
  /\ response = NoResponse
  /\ \E video \in SourceVideos, analyzer \in Analyzers :
       pipeline = start_run(video, analyzer, uploads, SourcePath, "camera_a")

OpenCapture ==
  /\ pipeline.pc = "open"
  /\ pipeline' = open_capture(pipeline)
  /\ UNCHANGED <<stores, uploads, tasks, response>>

ReadFrame ==
  /\ pipeline.pc = "read"
  /\ pipeline' = read_frame(pipeline)
  /\ UNCHANGED <<stores, uploads, tasks, response>>

SampleFrame ==
  /\ pipeline.pc = "sample"
  /\ pipeline' = sample_frame(pipeline)
  /\ UNCHANGED <<stores, uploads, tasks, response>>

CompileSummary ==
  /\ pipeline.pc = "summary"
  /\ pipeline' = compile_summary(pipeline)
  /\ UNCHANGED <<stores, uploads, tasks, response>>

PipelineNext ==
  \/ OpenCapture
  \/ ReadFrame
  \/ SampleFrame
  \/ CompileSummary

PipelineSpec == PipelineInit /\ [][PipelineNext]_vars

(* ------------------------------ claims --------------------------------- *)

\* C1: in every reachable state each job of the status store agrees with
\* the result store: a completed job has a stored result and no
\* error_message, a failed job has an error_message and no stored result,
\* a pending or processing job has neither.
C1_StatusAgreesWithResult ==
  \A id \in DOMAIN processing_status :
    LET job == processing_status[id]
    IN  /\ job.status = "completed" =>
             id \in DOMAIN completed_evidence /\ job.error_message = None
        /\ job.status = "failed" =>
             job.error_message # None /\ id \notin DOMAIN completed_evidence
        /\ job.status \in {"pending", "processing"} =>
             id \notin DOMAIN completed_evidence /\ job.error_message = None

C3_NoExceptionEscapes ==
  \A id \in DOMAIN tasks : tasks[id].pc # "crashed"

\* the step ends the background task of job id
TaskEnds(id) ==
  /\ id \in DOMAIN tasks
  /\ tasks[id].pc \in Running
  /\ tasks'[id].pc \notin Running

\* C4: every job upload_evidence created reaches status completed or
\* failed.  Only a job's own task writes these two statuses, so the claim
\* says of a finite run: when the task of a job ends, the job is in the
\* status store as completed or failed.
C4_TaskLeavesJobTerminal ==
  [][\A id \in Ids :
       TaskEnds(id) =>
         /\ id \in DOMAIN processing_status'
         /\ processing_status'[id].status \in Terminal]_vars

\* C6: a source that cannot be opened has no job: no task finds that its
\* file cannot be opened while a status entry exists for its id.
C6_UnopenableSourceHasNoJob ==
  \A id \in DOMAIN tasks :
    (tasks[id].pc \notin Running /\ tasks[id].stream = "unopenable") =>
      id \notin DOMAIN processing_status

\* C7: a stream that breaks after at least one frame was read leaves its
\* job failed with an error message and without a stored summary.
C7_InterruptedStreamFailsJob ==
  \A id \in DOMAIN tasks :
    (/\ tasks[id].pc \notin Running
     /\ tasks[id].stream = "interrupted"
     /\ id \in DOMAIN processing_status) =>
      /\ processing_status[id].status = "failed"
      /\ processing_status[id].error_message # None
      /\ id \notin DOMAIN completed_evidence

\* the two sequences of statuses a job may take
StatusSequences ==
  {<<"pending", "processing", "completed">>,
   <<"pending", "processing", "failed">>}

IsPrefix(s, t) ==
  /\ Len(s) <= Len(t)
  /\ \A i \in 1..Len(s) : s[i] = t[i]

\* C5: upload_evidence creates the job pending, with progress 0, no error
\* and no result, and returns with the task still to start; the statuses a
\* job takes are pending, processing and then one of completed or failed,
\* none skipped, none taken back, and a job whose task is over has taken
\* all three.
C5_PendingProcessingTerminal ==
  /\ [](\A id \in DOMAIN processing_status :
          LET job == processing_status[id]
          IN  /\ job.statuses # <<>>
              /\ job.status = job.statuses[Len(job.statuses)]
              /\ \E t \in StatusSequences : IsPrefix(job.statuses, t)
              /\ (id \in DOMAIN tasks /\ tasks[id].pc \notin Running) =>
                   Len(job.statuses) = 3)
  /\ [][/\ (response'.op = "upload" /\ response'.code = 200) =>
             LET id == response'.body.evidence_id
             IN  /\ id \notin DOMAIN processing_status
                 /\ processing_status'[id] = PendingStatus(id)
                 /\ processing_status'[id].error_message = None
                 /\ processing_status'[id].progress = 0
                 /\ id \notin DOMAIN completed_evidence'
                 /\ tasks'[id].pc = "scheduled"
        /\ \A id \in DOMAIN processing_status \cap DOMAIN processing_status' :
             IsPrefix(processing_status[id].statuses,
                      processing_status'[id].statuses)]_vars

\* one job has gone through to completed and another through to failed
C5_Witness ==
  \E a, b \in DOMAIN processing_status :
    /\ processing_status[a].statuses = <<"pending", "processing", "completed">>
    /\ processing_status[b].statuses = <<"pending", "processing", "failed">>

\* C8 as stated: a progress or a results request is answered 404 for every
\* id the status store does not have and for no id it has.
C8_NotFoundOnlyForUnknownIds ==
  \A id \in RequestIds :
    /\ progress_reply(processing_status, id).code = 404
         <=> id \notin DOMAIN processing_status
    /\ results_reply(processing_status, completed_evidence, id).code = 404
         <=> id \notin DOMAIN processing_status

\* C8 amended: a progress or a results request for an id the status store
\* does not have is answered 404 and changes no state; a progress request
\* for a job of the store is never answered 404; a results request for a
\* job of the store is answered 404 exactly when no result is stored for
\* it and its status is neither processing nor failed.
C8_NotFoundForUnknownAndUnfinished ==
  /\ [](\A id \in RequestIds :
          LET progress == progress_reply(processing_status, id)
              results == results_reply(processing_status, completed_evidence, id)
          IN  /\ id \notin DOMAIN processing_status =>
                   progress.code = 404 /\ results.code = 404
              /\ id \in DOMAIN processing_status =>
                   /\ progress.code = 200
                   /\ results.code = 404 <=>
                        /\ id \notin DOMAIN completed_evidence
                        /\ processing_status[id].status \notin {"processing", "failed"})
  /\ [][(response'.op \in {"progress", "results"} /\ response'.code = 404) =>
          UNCHANGED <<stores, uploads, tasks>>]_vars

\* a progress request was answered 404 after every job there was had been
\* deleted
C8_Witness ==
  /\ response.op = "progress"
  /\ response.code = 404
  /\ DOMAIN tasks # {}
  /\ DOMAIN processing_status = {}

ReadOps == {"progress", "results", "verify", "court-report", "list"}

\* C9: a step of get_processing_progress, get_evidence_results,
\* verify_evidence, generate_court_report or list_evidence leaves the status
\* store and the result store as they were, so a progress or a results
\* request repeated after it is answered as before it.
C9_ReadsChangeNothing ==
  [][response'.op \in ReadOps =>
       /\ UNCHANGED <<processing_status, status_keys,
                      completed_evidence, completed_keys>>
       /\ \A id \in RequestIds :
            /\ progress_reply(processing_status', id) =
                 progress_reply(processing_status, id)
            /\ results_reply(processing_status', completed_evidence', id) =
                 results_reply(processing_status, completed_evidence, id)]_vars

\* the stored result of a completed job has been verified
C9_Witness ==
  /\ response.op = "verify"
  /\ response.code = 200
  /\ response.body.evidence_id \in DOMAIN completed_evidence
  /\ processing_status[response.body.evidence_id].status = "completed"

\* the status entry and the result of job id are the same before and after
\* the step
SameJob(id) ==
  /\ id \in DOMAIN processing_status <=> id \in DOMAIN processing_status'
  /\ id \in DOMAIN processing_status =>
       processing_status'[id] = processing_status[id]
  /\ id \in DOMAIN completed_evidence <=> id \in DOMAIN completed_evidence'
  /\ id \in DOMAIN completed_evidence =>
       completed_evidence'[id] = completed_evidence[id]

\* C10: an upload gets an id no job had before; a step of the task of one
\* job leaves the entry and the result of every other job as they were; a
\* result is stored under its task's id with the device_id and the file
\* path that task was given, the path being the one saved for that id.
\* Each job gets to its end whatever the others do: a task that has not
\* run can run whenever the loop is free, its one step ends it, and a task
\* that ends with its job in the store leaves it completed or failed.
C10_JobsAreIsolated ==
  /\ [](\A id \in DOMAIN tasks :
          (Ready /\ tasks[id].pc \in Running) =>
            ENABLED (\E video \in Videos, analyzer \in TaskAnalyzers :
                       process_evidence_background(id, video, analyzer)))
  /\ [][/\ (response'.op = "upload" /\ response'.code = 200) =>
             LET id == response'.body.evidence_id
             IN  /\ id \notin DOMAIN tasks
                 /\ id \notin DOMAIN processing_status
                 /\ id \notin DOMAIN completed_evidence
                 /\ tasks'[id].file_path[1] = id
                 /\ tasks'[id].file_path \in uploads'
                 /\ \A other \in Ids \ {id} : SameJob(other)
        /\ \A id \in DOMAIN tasks :
             tasks'[id] # tasks[id] =>
               /\ \A other \in Ids \ {id} : SameJob(other)
               /\ tasks'[id].pc \notin Running
               /\ id \in DOMAIN processing_status' =>
                    processing_status'[id].status \in Terminal
        /\ \A id \in Ids :
             (id \notin DOMAIN completed_evidence
                /\ id \in DOMAIN completed_evidence') =>
               LET record == completed_evidence'[id]
               IN  /\ tasks'[id] # tasks[id]
                   /\ record.evidence_id = id
                   /\ record.device_id = tasks[id].device_id
                   /\ record.file_path = tasks[id].file_path
                   /\ record.file_path[1] = id
                   /\ record.processing_results.device_id = tasks[id].device_id
                   /\ record.processing_results.video_path = tasks[id].file_path]_vars

\* two jobs of different devices have their results stored, each with the
\* file saved under its own id
C10_Witness ==
  \E a, b \in DOMAIN completed_evidence :
    /\ a # b
    /\ completed_evidence[a].device_id # completed_evidence[b].device_id
    /\ completed_evidence[a].file_path[1] = a
    /\ completed_evidence[b].file_path[1] = b

\* C11: a progress request can be served while the background task of a
\* job is running, so a poll can observe the status processing: the step
\* in which a task writes processing leaves the job with that status for
\* the next request to see.
C11_ProcessingIsObservable ==
  [][\A id \in Ids :
       (/\ id \in DOMAIN processing_status
        /\ id \in DOMAIN processing_status'
        /\ "processing" \notin Range(processing_status[id].statuses)
        /\ "processing" \in Range(processing_status'[id].statuses)) =>
         progress_reply(processing_status', id).body.status = "processing"]_vars

\* the frames of an N-frame video the sampling takes: i with i mod 30 = 0
Sampled(N) == {i \in 0..(N - 1) : i % 30 = 0}

\* C12: of a video with N decodable frames exactly the frames i with
\* i mod 30 = 0 and 0 <= i < N are analysed, in increasing order, once
\* each, and frames_processed of the summary is ceil(N / 30); a video of
\* 301 frames has the 11 frames 0, 30, ..., 300 analysed.
C12_EveryThirtiethFrame ==
  pipeline.pc # "idle" =>
    LET N == pipeline.video.frames
        analyzed == pipeline.analyzed
    IN  /\ \A k \in 1..Len(analyzed) : analyzed[k] = 30 * (k - 1)
        /\ Range(analyzed) \subseteq Sampled(N)
        /\ pipeline.evidence_metadata.frames_processed = Len(analyzed)
        /\ pipeline.pc = "returned" =>
             /\ Range(analyzed) = Sampled(N)
             /\ pipeline.evidence_metadata.frames_processed = (N + 29) \div 30
             /\ N = 301 =>
                  analyzed = <<0, 30, 60, 90, 120, 150, 180, 210, 240, 270, 300>>

\* the call has returned the summary of a video of 301 frames
C12_Witness ==
  /\ pipeline.pc = "returned"
  /\ pipeline.video.frames = 301
  /\ pipeline.evidence_metadata.frames_processed = 11

\* C13: in every summary process_video_evidence returns, frames_processed
\* is at most total_frames, also for a source whose reported frame count
\* differs from the number of frames read.
C13_ProcessedAtMostTotal ==
  pipeline.pc = "returned" =>
    pipeline.evidence_metadata.frames_processed <=
      pipeline.evidence_metadata.total_frames

\* what lines 181-194 make of the summary results for a job in status
\* processing
CompletedWith(results) ==
  LET job == [set_status(PendingStatus(1), "processing") EXCEPT !.progress = 1]
      task == [pc |-> "scheduled", file_path |-> SourcePath,
               device_id |-> "camera_a", evidence_type |-> "video",
               location |-> None]
  IN  complete_job(Put(EmptyDict, 1, job), EmptyDict, <<>>, 1, task, results)

\* C14: for a video that opens and yields no frame the call does not
\* raise; it returns a summary with frames_processed 0, quality mean, min
\* and max 0, no object label and a face total of 0, and with that summary
\* the job is completed.
C14_ZeroFramesComplete ==
  (/\ pipeline.pc # "idle"
   /\ pipeline.openable
   /\ pipeline.video.frames = 0
   /\ pipeline.video.tail # "raises") =>
     /\ pipeline.pc # "raised"
     /\ pipeline.pc = "returned" =>
          LET summary == pipeline.evidence_metadata
              out == CompletedWith(summary)
          IN  /\ summary.frames_processed = 0
              /\ summary.quality_stats =
                   [mean_quality |-> 0, min_quality |-> 0, max_quality |-> 0]
              /\ DOMAIN summary.objects_summary = {}
              /\ total_faces(summary.faces_summary) = 0
              /\ ~out.raised
              /\ out.ps[1].status = "completed"
              /\ out.ce[1].processing_results = summary

\* the call has returned for a video that opened and gave no frame
C14_Witness ==
  /\ pipeline.pc = "returned"
  /\ pipeline.openable
  /\ pipeline.video.frames = 0
  /\ pipeline.released

\* f[1] + ... + f[n]
RECURSIVE Total(_, _)
Total(f, n) == IF n = 0 THEN 0 ELSE f[n] + Total(f, n - 1)

\* what analyze_frame returned for the k-th sampled frame of the call
FrameResult(k) ==
  analyze_frame(frame_at(pipeline.video, pipeline.analyzed[k]),
                VideoMetadata(pipeline.analyzed[k]), pipeline.analyzer)

\* the number of objects with the label detected in the k-th sampled frame
Detected(label, k) ==
  LET objects == FrameResult(k).objects_detected
  IN  Cardinality({j \in DOMAIN objects : objects[j].label = label})

Labels == {"person", "car", "dog"}

\* C15: after any number of sampled frames the object histogram maps each
\* label to the number of detected objects with that label summed over the
\* sampled frames (each object of a frame counts), the face total is the
\* sum of the per-frame face counts, and the quality scores are the
\* per-frame scores; the summary returned carries this histogram, this
\* face total and the min, mean and max of these scores.
C15_SummaryAggregatesFrames ==
  pipeline.pc \notin {"idle", "open"} =>
    LET n == Len(pipeline.analyzed)
        count(label) == Total([k \in 1..n |-> Detected(label, k)], n)
        faces == Total([k \in 1..n |-> FrameResult(k).faces_detected], n)
        scores == [k \in 1..n |-> FrameResult(k).quality_score]
        summary == pipeline.evidence_metadata
        stats == summary.quality_stats
    IN  /\ DOMAIN pipeline.all_objects = {label \in Labels : count(label) > 0}
        /\ \A label \in DOMAIN pipeline.all_objects :
             pipeline.all_objects[label] = count(label)
        /\ total_faces(pipeline.all_faces) = faces
        /\ pipeline.quality_scores = scores
        /\ pipeline.pc = "returned" =>
             /\ summary.objects_summary = pipeline.all_objects
             /\ summary.faces_summary = pipeline.all_faces
             /\ summary.frames_processed = n
             /\ n > 0 =>
                  /\ stats.mean_quality = [sum |-> Total(scores, n), count |-> n]
                  /\ \E k \in 1..n : stats.min_quality = scores[k]
                  /\ \A k \in 1..n : stats.min_quality <= scores[k]
                  /\ \E k \in 1..n : stats.max_quality = scores[k]
                  /\ \A k \in 1..n : stats.max_quality >= scores[k]

\* a summary over three sampled frames, one of them showing two persons
C15_Witness ==
  /\ pipeline.pc = "returned"
  /\ pipeline.evidence_metadata.frames_processed = 3
  /\ pipeline.evidence_metadata.objects_summary =
       [label \in {"person", "car"} |-> IF label = "person" THEN 3 ELSE 1]
  /\ total_faces(pipeline.evidence_metadata.faces_summary) = 3
  /\ pipeline.evidence_metadata.quality_stats.min_quality = 250
  /\ pipeline.evidence_metadata.quality_stats.max_quality = 750

\* C16: when the object detector fails on every call, the call still
\* returns and the job completes: every sampled frame is counted in
\* frames_processed, the object histogram is empty, the faces of every
\* sampled frame are counted, and the quality score of every sampled frame
\* is the one assess_quality computes for it.
C16_DetectorFailureIsIsolated ==
  (pipeline.pc \notin {"idle", "open"}
     /\ pipeline.analyzer.object_detector = "raises") =>
    LET n == Len(pipeline.analyzed)
        frame(k) == frame_at(pipeline.video, pipeline.analyzed[k])
        summary == pipeline.evidence_metadata
    IN  /\ (pipeline.openable /\ pipeline.video.tail # "raises") =>
             pipeline.pc # "raised"
        /\ summary.frames_processed = n
        /\ pipeline.all_objects = EmptyDict
        /\ total_faces(pipeline.all_faces) = Total([k \in 1..n |-> frame(k).faces], n)
        /\ Len(pipeline.quality_scores) = n
        /\ \A k \in 1..n :
             pipeline.quality_scores[k] = assess_quality(frame(k), pipeline.analyzer)
        /\ pipeline.pc = "returned" =>
             /\ n = Cardinality(Sampled(pipeline.video.frames))
             /\ summary.objects_summary = EmptyDict
             /\ summary.faces_summary = pipeline.all_faces
             /\ summary.quality_stats = quality_stats(pipeline.quality_scores)
             /\ CompletedWith(summary).ps[1].status = "completed"

\* a summary over two sampled frames with faces and without objects, from
\* an object detector that raises
C16_Witness ==
  /\ pipeline.pc = "returned"
  /\ pipeline.analyzer.object_detector = "raises"
  /\ pipeline.evidence_metadata.frames_processed = 2
  /\ pipeline.evidence_metadata.objects_summary = EmptyDict
  /\ total_faces(pipeline.evidence_metadata.faces_summary) = 3
  /\ pipeline.evidence_metadata.quality_stats.max_quality = 750

\* C17: the progress of every job lies in [0, 1] (kept in tenths: 0..10)
\* and is 1.0 exactly when the job's status is completed; no step lowers
\* the progress of a job.
C17_ProgressBounds ==
  /\ [](\A id \in DOMAIN processing_status :
          /\ processing_status[id].progress \in 0..10
          /\ processing_status[id].progress = 10 <=>
               processing_status[id].status = "completed")
  /\ [][\A id \in DOMAIN processing_status :
          id \in DOMAIN processing_status' =>
            processing_status'[id].progress >= processing_status[id].progress]_vars

\* one job is completed at progress 1.0 while another has failed at 0.1
C17_Witness ==
  \E done, failed \in DOMAIN processing_status :
    /\ processing_status[done].status = "completed"
    /\ processing_status[done].progress = 10
    /\ processing_status[failed].status = "failed"
    /\ processing_status[failed].progress = 1

\* the step serves a request to one of the seven evidence endpoints that
\* came with the Authorization header token
EvidenceRequest(token) ==
  \/ \E filename \in Filenames, device_id \in Devices,
        evidence_type \in EvidenceTypes, save \in SaveOutcomes :
       upload_evidence(token, filename, device_id, evidence_type, save)
  \/ \E evidence_id \in RequestIds : get_processing_progress(token, evidence_id)
  \/ \E evidence_id \in RequestIds : get_evidence_results(token, evidence_id)
  \/ \E evidence_id \in RequestIds, request \in VerifyBodies :
       verify_evidence(token, evidence_id, request)
  \/ \E evidence_id \in RequestIds, request \in ReportBodies :
       generate_court_report(token, evidence_id, request)
  \/ \E query \in ListQueries :
       list_evidence(token, query.skip, query.limit, query.status_filter)
  \/ \E evidence_id \in RequestIds, remove_ok \in BOOLEAN :
       delete_evidence(token, evidence_id, remove_ok)

\* C18: a request to an evidence endpoint whose bearer token is missing or
\* is not demo-token is answered 401 and leaves the status store and the
\* result store unchanged; the health endpoint answers 200 without any
\* credentials.
C18_BadTokenGets401 ==
  [][/\ \A token \in Tokens :
          (~verify_token(token) /\ EvidenceRequest(token)) =>
            /\ response'.code = 401
            /\ UNCHANGED stores
     /\ health_check => response'.code = 200]_vars

\* C19: a job or a result leaves its store only in a step of
\* delete_evidence, and after delete_evidence of a job, whatever its
\* status, the id is in neither store and the file saved for it has been
\* removed.
C19_DeleteRemovesEverything ==
  [][\A id \in Ids :
       /\ (\/ id \in DOMAIN processing_status /\ id \notin DOMAIN processing_status'
           \/ id \in DOMAIN completed_evidence /\ id \notin DOMAIN completed_evidence')
            => response'.op = "delete"
       /\ (/\ id \in DOMAIN processing_status
           /\ \E remove_ok \in BOOLEAN :
                delete_evidence(Bearer(DemoToken), id, remove_ok)) =>
            /\ id \notin DOMAIN processing_status'
            /\ id \notin DOMAIN completed_evidence'
            /\ \A file_path \in uploads' : file_path[1] # id]_vars

\* C20: for evidence whose processing has completed, a verify request
\* whose body gives verification_level and include_ai_analysis is answered
\* 200 with integrity_check passed, the level echoed and bitcoin_anchored
\* true, and a court-report request whose body gives report_type and
\* jurisdiction is answered 200 echoing evidence_id, report_type and
\* jurisdiction.
C20_VerifyAndReportSucceed ==
  [][\A id \in DOMAIN completed_evidence :
       /\ \A request \in VerifyBodies :
            verify_evidence(Bearer(DemoToken), id, request) =>
              /\ response'.code = 200
              /\ response'.body.integrity_check = "passed"
              /\ response'.body.verification_level = request.verification_level
              /\ response'.body.bitcoin_anchored
       /\ \A request \in ReportBodies :
            generate_court_report(Bearer(DemoToken), id, request) =>
              /\ response'.code = 200
              /\ response'.body.evidence_id = id
              /\ response'.body.report_type = request.report_type
              /\ response'.body.jurisdiction = request.jurisdiction]_vars

\* C21: the record the results endpoint returns for completed evidence has
\* the top-level fields device_id, evidence_type and processing_timestamp,
\* and its processing_results holds a mapping objects_summary, a mapping
\* quality_stats and an integer frames_processed.
C21_ResultRecordFields ==
  \A id \in DOMAIN completed_evidence :
    LET reply == results_reply(processing_status, completed_evidence, id)
        results == reply.body.processing_results
    IN  /\ reply.code = 200
        /\ {"device_id", "evidence_type", "processing_timestamp"}
             \subseteq DOMAIN reply.body
        /\ {"objects_summary", "quality_stats", "frames_processed"}
             \subseteq DOMAIN results
        /\ results.frames_processed \in Nat

\* C22 as stated: the sequence of the k-th analysed frame is its ordinal
\* among the sampled frames, 0, 1, 2, ..., and not its index in the video.
C22_SequenceIsOrdinal ==
  pipeline.pc # "idle" =>
    \A k \in 1..Len(pipeline.analyzed) : pipeline.analyzed[k] = k - 1

\* C22 amended: the sequence of an analysed frame is the number of frames
\* read before it, its index in the video; the sequences are strictly
\* increasing in sampling order, and the ordinal of a frame among the
\* sampled frames is its sequence divided by the stride of 30.
C22_SequenceIsFrameIndex ==
  /\ [](pipeline.pc # "idle" =>
          \A k \in 1..Len(pipeline.analyzed) :
            /\ pipeline.analyzed[k] \div 30 = k - 1
            /\ pipeline.analyzed[k] % 30 = 0
            /\ \A j \in 1..(k - 1) : pipeline.analyzed[j] < pipeline.analyzed[k])
  /\ [][pipeline.pc = "sample" =>
          pipeline'.analyzed = Append(pipeline.analyzed, pipeline.frame_count)]_vars

\* three frames have been analysed, the third as sequence 60
C22_Witness ==
  /\ pipeline.pc = "read"
  /\ pipeline.analyzed = <<0, 30, 60>>
  /\ pipeline.frame_count = 61

\* the rows with a confidence of 0.5 or more, in their order
RECURSIVE AtLeastHalf(_)
AtLeastHalf(rows) ==
  IF rows = <<>> THEN <<>>
  ELSE (IF Head(rows).confidence >= 50 THEN <<Head(rows)>> ELSE <<>>)
         \o AtLeastHalf(Tail(rows))

\* the rows with a confidence above 0.5, in their order
RECURSIVE AboveHalf(_)
AboveHalf(rows) ==
  IF rows = <<>> THEN <<>>
  ELSE (IF Head(rows).confidence > 50 THEN <<Head(rows)>> ELSE <<>>)
         \o AboveHalf(Tail(rows))

\* the frames the call has sampled so far
SampledFrames ==
  {frame_at(pipeline.video, pipeline.analyzed[k]) : k \in 1..Len(pipeline.analyzed)}

\* C23 as stated: for every sampled frame a working detect_objects returns
\* the detections with a confidence of 0.5 or more, in detector order, and
\* none below 0.5.
C23_KeepsHalfAndAbove ==
  (pipeline.pc # "idle" /\ pipeline.analyzer.object_detector = "loaded") =>
    \A frame \in SampledFrames :
      detect_objects(frame, pipeline.analyzer) = AtLeastHalf(frame.rows)

\* C23 amended: a working detect_objects returns exactly the detections
\* with a confidence above 0.5, in detector order; a detection with a
\* confidence of 0.5 or less is not in the frame record.
C23_KeepsAboveHalf ==
  (pipeline.pc # "idle" /\ pipeline.analyzer.object_detector = "loaded") =>
    \A frame \in SampledFrames :
      LET objects == detect_objects(frame, pipeline.analyzer)
      IN  /\ objects = AboveHalf(frame.rows)
          /\ \A j \in DOMAIN objects : objects[j].confidence > 50
          /\ Len(objects) =
               Cardinality({j \in DOMAIN frame.rows : frame.rows[j].confidence > 50})

\* one frame has been analysed with a working detector: of its four
\* detections, one of them at 0.5, the two persons were kept
C23_Witness ==
  /\ pipeline.pc = "read"
  /\ pipeline.analyzer.object_detector = "loaded"
  /\ Len(pipeline.analyzed) = 1
  /\ Len(frame_at(pipeline.video, 0).rows) = 4
  /\ \E j \in 1..4 : frame_at(pipeline.video, 0).rows[j].confidence = 50
  /\ DOMAIN pipeline.all_objects = {"person"}
  /\ pipeline.all_objects["person"] = 2

\* C24: estimate_noise lets no exception out: when its filter fails it
\* returns exactly 25.0, so for every sampled frame assess_quality gives
\* the score computed with the noise level 25.0 (not the 0.5 of its own
\* except), assess_environment reports the noise level 25.0, and
\* analyze_frame fills the quality score and the environment.
C24_NoiseFallback ==
  (pipeline.pc # "idle" /\ pipeline.analyzer.noise_filter = "raises"
     /\ pipeline.analyzer.metrics = "works"
     /\ pipeline.analyzer.motion = "works") =>
    /\ Len(pipeline.quality_scores) = Len(pipeline.analyzed)
    /\ \A k \in 1..Len(pipeline.analyzed) :
         LET frame == frame_at(pipeline.video, pipeline.analyzed[k])
             with_fallback == (frame.detail + (1000 - 500) + 2) \div 4
         IN  /\ estimate_noise(frame, pipeline.analyzer) = Returned(25)
             /\ assess_quality(frame, pipeline.analyzer) = with_fallback
             /\ assess_environment(frame, pipeline.analyzer) =
                  Returned([environmental_noise |-> 25])
             /\ FrameResult(k).quality_score = with_fallback
             /\ FrameResult(k).environmental_conditions =
                  [environmental_noise |-> 25]
             /\ pipeline.quality_scores[k] = with_fallback

\* a summary of three frames analysed while the noise filter fails: the
\* quality scores are those computed with the noise level 25.0
C24_Witness ==
  /\ pipeline.pc = "returned"
  /\ pipeline.analyzer.noise_filter = "raises"
  /\ pipeline.quality_scores = <<675, 125, 625>>

\* C25: for every job in status failed the progress endpoint reports the
\* status failed with a non-empty error_message, and the results endpoint
\* answers 500 with that message, not 404 and not a result.
C25_FailureIsVisible ==
  \A id \in DOMAIN processing_status :
    processing_status[id].status = "failed" =>
      LET progress == progress_reply(processing_status, id)
          results == results_reply(processing_status, completed_evidence, id)
      IN  /\ progress.code = 200
          /\ progress.body.status = "failed"
          /\ progress.body.error_message \notin {None, ""}
          /\ id \notin DOMAIN completed_evidence
          /\ results.code = 500
          /\ results.body.error_message = progress.body.error_message

\* the results request for a failed job has been answered 500 with the
\* job's message
C25_Witness ==
  /\ response.op = "results"
  /\ response.code = 500
  /\ \E id \in DOMAIN processing_status :
       /\ processing_status[id].status = "failed"
       /\ response.body.error_message = processing_status[id].error_message

\* C26: a deleted job is never resurrected.  An id that has a task and no
\* status entry is the id of a deleted job: no step gives it a status
\* entry or a stored result again, whatever its task does; and every id
\* of the result store has a status entry with status completed.
C26_DeletedStaysDeleted ==
  /\ [](\A id \in DOMAIN completed_evidence :
          /\ id \in DOMAIN processing_status
          /\ processing_status[id].status = "completed")
  /\ [][\A id \in DOMAIN tasks :
          id \notin DOMAIN processing_status =>
            /\ id \notin DOMAIN processing_status'
            /\ id \notin DOMAIN completed_evidence']_vars

\* the task of a job deleted while pending has run and is over, with the
\* job in neither store, while another job is completed
C26_Witness ==
  \E id \in DOMAIN tasks :
    /\ tasks[id].pc \notin Running
    /\ id \notin DOMAIN processing_status
    /\ id \notin DOMAIN completed_evidence
    /\ DOMAIN completed_evidence # {}

\* C27: an upload that fails while the file is saved is answered 500,
\* creates no status entry and schedules no task: the status store and
\* the result store are as before it.
C27_FailedUploadLeavesNoJob ==
  [][\A filename \in Filenames, device_id \in Devices,
        evidence_type \in EvidenceTypes, save \in SaveOutcomes \ {"saved"} :
       upload_evidence(Bearer(DemoToken), filename, device_id, evidence_type, save)
         => /\ response'.op = "upload"
            /\ response'.code = 500
            /\ UNCHANGED stores
            /\ UNCHANGED tasks]_vars

\* an upload has been answered 500 after part of the file was written:
\* the file is there and no job and no task go with it
C27_Witness ==
  /\ response.op = "upload"
  /\ response.code = 500
  /\ \E file_path \in uploads :
       /\ file_path[1] \notin DOMAIN tasks
       /\ file_path[1] \notin DOMAIN processing_status
       /\ file_path[1] \notin DOMAIN completed_evidence

\* C28: whenever process_video_evidence is over, by return or by raise,
\* the capture it opened has been released.
C28_CaptureReleased ==
  (pipeline.pc \in Ended /\ pipeline.openable) => pipeline.released

\* C29: every sampled frame adds exactly one quality score and one to
\* frames_processed, also when analyze_frame gives up on the way and
\* returns the record as filled so far (then the score is the default
\* 0.0); at every point of the loop and at the return the number of
\* quality scores equals frames_processed.
C29_OneScorePerSampledFrame ==
  /\ [](pipeline.pc # "idle" =>
          /\ Len(pipeline.quality_scores) = pipeline.evidence_metadata.frames_processed
          /\ Len(pipeline.analyzed) = pipeline.evidence_metadata.frames_processed
          /\ pipeline.analyzer.motion = "raises" =>
               \A k \in 1..Len(pipeline.quality_scores) :
                 pipeline.quality_scores[k] = 0)
  /\ [][pipeline.pc = "sample" =>
          /\ Len(pipeline'.quality_scores) = Len(pipeline.quality_scores) + 1
          /\ pipeline'.evidence_metadata.frames_processed =
               pipeline.evidence_metadata.frames_processed + 1]_vars

\* a summary over three sampled frames on each of which analyze_frame gave
\* up at detect_motion
C29_Witness ==
  /\ pipeline.pc = "returned"
  /\ pipeline.analyzer.motion = "raises"
  /\ pipeline.evidence_metadata.frames_processed = 3
  /\ pipeline.quality_scores = <<0, 0, 0>>
  /\ total_faces(pipeline.evidence_metadata.faces_summary) = 3

\* the jobs currently in the stores
Jobs == DOMAIN processing_status \cup DOMAIN completed_evidence

\* C30: without a status filter the list reports every job of the stores
\* exactly once, a job with a stored result as completed and every other
\* job with its current status; total is the number of jobs whatever skip
\* and limit are, and the page has at most limit entries.
C30_ListReportsEveryJobOnce ==
  \A query \in {q \in ListQueries : q.status_filter = None} :
    LET reply == list_reply(processing_status, status_keys, completed_evidence,
                            completed_keys, query.skip, query.limit, None)
        whole == list_reply(processing_status, status_keys, completed_evidence,
                            completed_keys, 0, Cardinality(Jobs), None)
        listed == whole.body.evidence
    IN  /\ reply.code = 200
        /\ reply.body.total = Cardinality(Jobs)
        /\ Len(reply.body.evidence) <= query.limit
        /\ \A id \in Jobs :
             /\ Cardinality({k \in DOMAIN listed : listed[k].evidence_id = id}) = 1
             /\ \A k \in DOMAIN listed :
                  listed[k].evidence_id = id =>
                    listed[k].status =
                      IF id \in DOMAIN completed_evidence THEN "completed"
                      ELSE processing_status[id].status

====
